---- MODULE Spec2Model ----
(***************************************************************************)
(* spl-faucet command line client (src/spl-faucet/src/main.rs).            *)
(*                                                                         *)
(* The process parses a command, reads the payer key file and, for         *)
(* `create`, builds one transaction of four instructions (create mint      *)
(* account, initialize mint, create faucet account, initialize faucet),    *)
(* signs it and submits it to a cluster.  The cluster (rent schedule,      *)
(* block height, account store, transaction execution) is the              *)
(* environment of the program.                                             *)
(***************************************************************************)
EXTENDS Integers, Sequences, FiniteSets, TLC

(***************************************************************************)
(* Bounds of the environment.                                              *)
(***************************************************************************)
MaxRent == 2       \* rent-exempt minimums range over 1..MaxRent lamports
MaxFunds == 2      \* the payer's balance ranges over 0..MaxFunds lamports
MaxTip == 1        \* the cluster advances at most MaxTip blocks

(***************************************************************************)
(* u64 values are kept at full width as 8 little-endian bytes.             *)
(***************************************************************************)
U64_BYTES == 8
BYTE == 256

U64_ZERO == <<0, 0, 0, 0, 0, 0, 0, 0>>
U64_ONE == <<1, 0, 0, 0, 0, 0, 0, 0>>
U64_TEN == <<10, 0, 0, 0, 0, 0, 0, 0>>
U64_MAX == <<255, 255, 255, 255, 255, 255, 255, 255>>

\* column p of the schoolbook product: sum of a[i] * b[j] with i + j = p + 1
RECURSIVE ColumnSum(_, _, _, _)
ColumnSum(a, b, p, i) ==
    IF i > U64_BYTES THEN 0
    ELSE (IF (p + 1 - i) \in 1..U64_BYTES THEN a[i] * b[p + 1 - i] ELSE 0)
         + ColumnSum(a, b, p, i + 1)

\* bytes p..16 of the full 128-bit product, given the carry into column p
RECURSIVE WideMulFrom(_, _, _, _)
WideMulFrom(a, b, p, carry) ==
    IF p > 2 * U64_BYTES THEN <<>>
    ELSE LET t == ColumnSum(a, b, p, 1) + carry
         IN  <<t % BYTE>> \o WideMulFrom(a, b, p + 1, t \div BYTE)

\* the full 128-bit product of two u64 values, 16 little-endian bytes
WideMul(a, b) == WideMulFrom(a, b, 1, 0)

\* a * b on u64: the low 64 bits and whether the product left the width
u64_mul(a, b) ==
    LET w == WideMul(a, b)
    IN  [val |-> SubSeq(w, 1, U64_BYTES),
         ovf |-> \E p \in (U64_BYTES + 1)..(2 * U64_BYTES) : w[p] # 0]

\* u64::pow: square and multiply; every multiplication is a u64 `*`
RECURSIVE PowLoop(_, _, _, _)
PowLoop(base, acc, exp, ovf) ==
    IF exp > 1
    THEN LET m == u64_mul(acc, base)
             sq == u64_mul(base, base)
             odd == (exp % 2) = 1
         IN  PowLoop(sq.val,
                     IF odd THEN m.val ELSE acc,
                     exp \div 2,
                     ovf \/ (odd /\ m.ovf) \/ sq.ovf)
    ELSE LET m == u64_mul(acc, base)
         IN  [val |-> m.val, ovf |-> ovf \/ m.ovf]

u64_pow(base, exp) ==
    IF exp = 0 THEN [val |-> U64_ONE, ovf |-> FALSE]
    ELSE PowLoop(base, U64_ONE, exp, FALSE)

\* `ui_amount * 10u64.pow(decimals as u32)`: the operand 10^decimals is
\* evaluated first, then the product.  ovf tells whether any `*` overflowed.
ScaledAmount(ui_amount, decimals) ==
    LET p == u64_pow(U64_TEN, decimals)
        m == u64_mul(ui_amount, p.val)
    IN  [val |-> m.val, ovf |-> p.ovf \/ m.ovf]

(***************************************************************************)
(* Addresses.  A key pair is identified with its public key.               *)
(***************************************************************************)
None == "None"
PAYER == "payer"                          \* the key pair in the wallet file
FRESH_KEYS == <<"k1", "k2">>              \* what Keypair::new() returns, call by call
FreshKeys == {FRESH_KEYS[i] : i \in DOMAIN FRESH_KEYS}
FAUCET_PROGRAM_ID == "4bXpkKSV8swHSnwqtzuboGPaPDeEgAn4Vt8GfarV5rZt"
TOKEN_PROGRAM_ID == "spl_token::ID"
SYSTEM_PROGRAM_ID == "system_program::ID"
RENT_SYSVAR_ID == "sysvar::rent::id()"
FAUCET_PDA == "find_program_address([faucet], FAUCET_PROGRAM_ID)"
Mint_LEN == "Mint::LEN"
Faucet_LEN == "Faucet::LEN"
Spaces == {Mint_LEN, Faucet_LEN}
Addresses == {PAYER, FAUCET_PDA, RENT_SYSVAR_ID} \cup FreshKeys

\* variant: the address is derived from the token program's id
get_faucet_pda_tokenProgram == "find_program_address([faucet], spl_token::ID)"

\* the first component of the (address, bump) pair of the faucet program
get_faucet_pda == FAUCET_PDA

(***************************************************************************)
(* Instruction builders.                                                   *)
(***************************************************************************)
AccountMeta_new(pubkey, is_signer) ==
    [pubkey |-> pubkey, is_signer |-> is_signer, is_writable |-> TRUE]

AccountMeta_new_readonly(pubkey, is_signer) ==
    [pubkey |-> pubkey, is_signer |-> is_signer, is_writable |-> FALSE]

\* system_instruction::create_account: funder and new account both sign
create_account(from, to, lamports, space, owner) ==
    [program_id |-> SYSTEM_PROGRAM_ID,
     accounts |-> <<AccountMeta_new(from, TRUE), AccountMeta_new(to, TRUE)>>,
     data |-> [tag |-> "CreateAccount", lamports |-> lamports,
               space |-> space, owner |-> owner]]

\* spl_token::instruction::initialize_mint2: Err unless the program id is
\* the token program's
initialize_mint2(token_program_id, mint, mint_authority, freeze_authority, decimals) ==
    IF token_program_id # TOKEN_PROGRAM_ID THEN [ok |-> FALSE]
    ELSE [ok |-> TRUE,
          ix |-> [program_id |-> token_program_id,
                  accounts |-> <<AccountMeta_new(mint, FALSE)>>,
                  data |-> [tag |-> "InitializeMint2", decimals |-> decimals,
                            mint_authority |-> mint_authority,
                            freeze_authority |-> freeze_authority]]]

\* FaucetInstruction::InitFaucet { amount }.pack(): tag byte, then the
\* amount as 8 little-endian bytes
INIT_FAUCET_TAG == 0
FaucetInstruction_pack(amount) == <<INIT_FAUCET_TAG>> \o amount

\* variant: the mint entry built with AccountMeta::new (writable)
create_init_faucet_ix_mintWritable(mint_account, faucet_account, admin, amount) ==
    LET accounts == <<AccountMeta_new(mint_account, FALSE),
                      AccountMeta_new(faucet_account, FALSE),
                      AccountMeta_new_readonly(RENT_SYSVAR_ID, FALSE)>>
    IN  [program_id |-> FAUCET_PROGRAM_ID,
         accounts |-> IF admin # None
                      THEN Append(accounts,
                                  AccountMeta_new_readonly(admin, FALSE))
                      ELSE accounts,
         data |-> FaucetInstruction_pack(amount)]

create_init_faucet_ix(mint_account, faucet_account, admin, amount) ==
    LET accounts == <<AccountMeta_new_readonly(mint_account, FALSE),
                      AccountMeta_new(faucet_account, FALSE),
                      AccountMeta_new_readonly(RENT_SYSVAR_ID, FALSE)>>
    IN  [program_id |-> FAUCET_PROGRAM_ID,
         accounts |-> IF admin # None
                      THEN Append(accounts,
                                  AccountMeta_new_readonly(admin, FALSE))
                      ELSE accounts,
         data |-> FaucetInstruction_pack(amount)]

(***************************************************************************)
(* Transaction::new_signed_with_payer.                                     *)
(***************************************************************************)
SignerKeys(instructions) ==
    {instructions[i].accounts[j].pubkey :
        <<i, j>> \in {<<i, j>> \in (DOMAIN instructions) \X (1..4) :
                        /\ j \in DOMAIN instructions[i].accounts
                        /\ instructions[i].accounts[j].is_signer}}

\* the keys whose signature the message requires
RequiredSigners(message) ==
    {message.fee_payer} \cup SignerKeys(message.instructions)

\* variant: the mint is initialized before its account is created
InstructionArray_initFirst(ix1, ix2, ix3, ix4) == <<ix2, ix1, ix3, ix4>>

\* variant: the faucet-initialization instruction is left out
InstructionArray_noFaucetInit(ix1, ix2, ix3, ix4) == <<ix1, ix2, ix3>>

\* the instruction array of the create flow
InstructionArray(ix1, ix2, ix3, ix4) == <<ix1, ix2, ix3, ix4>>

\* variant: the fresh mint key is named as fee payer
FeePayer_mint(payer_pubkey, mint_pubkey, faucet_pubkey) == mint_pubkey

\* the payer argument of the create flow
FeePayer(payer_pubkey, mint_pubkey, faucet_pubkey) == payer_pubkey

\* the signing key pairs of the create flow
SigningKeypairs(payer_kp, mint_kp, faucet_kp) == {payer_kp, mint_kp, faucet_kp}

\* compiles the message and signs it; signing panics when a key pair is
\* not a required signer or a required signer has no key pair
new_signed_with_payer(instructions, payer_pubkey, signing_keypairs, recent_blockhash) ==
    LET message == [fee_payer |-> payer_pubkey,
                    instructions |-> instructions,
                    recent_blockhash |-> recent_blockhash]
    IN  IF signing_keypairs = RequiredSigners(message)
        THEN [ok |-> TRUE,
              tx |-> [message |-> message, signatures |-> signing_keypairs]]
        ELSE [ok |-> FALSE]

(***************************************************************************)
(* The cluster: account store and atomic transaction execution.            *)
(***************************************************************************)
NoAccount == [lamports |-> 0, owner |-> None, space |-> None,
              data |-> [kind |-> "none"]]

Exists(acc, a) == acc[a].data.kind # "none"

\* InitFaucet payload: the amount is bytes 2..9
FaucetInstruction_unpack(data) == SubSeq(data, 2, 1 + U64_BYTES)

\* one instruction applied to the account store acc
ExecIx(acc, ix, rent_now) ==
    IF ix.program_id = SYSTEM_PROGRAM_ID
    THEN LET from == ix.accounts[1].pubkey
             to == ix.accounts[2].pubkey
             d == ix.data
         IN  IF /\ ~Exists(acc, to)
                /\ acc[from].lamports >= d.lamports
                /\ d.lamports >= rent_now[d.space]
             THEN [ok |-> TRUE,
                   acc |-> [acc EXCEPT
                       ![from] = [@ EXCEPT !.lamports = @ - d.lamports],
                       ![to] = [lamports |-> d.lamports, owner |-> d.owner,
                                space |-> d.space,
                                data |-> [kind |-> "uninit"]]]]
             ELSE [ok |-> FALSE, acc |-> acc]
    ELSE IF ix.program_id = TOKEN_PROGRAM_ID
    THEN LET mint == ix.accounts[1].pubkey
             d == ix.data
         IN  IF /\ acc[mint].owner = TOKEN_PROGRAM_ID
                /\ acc[mint].space = Mint_LEN
                /\ acc[mint].data.kind = "uninit"
             THEN [ok |-> TRUE,
                   acc |-> [acc EXCEPT ![mint] = [@ EXCEPT !.data =
                       [kind |-> "mint", decimals |-> d.decimals,
                        mint_authority |-> d.mint_authority,
                        freeze_authority |-> d.freeze_authority]]]]
             ELSE [ok |-> FALSE, acc |-> acc]
    ELSE IF ix.program_id = FAUCET_PROGRAM_ID
    THEN LET mint == ix.accounts[1].pubkey
             faucet == ix.accounts[2].pubkey
         IN  IF /\ Len(ix.accounts) >= 3
                /\ ix.accounts[2].is_writable
                /\ acc[faucet].owner = FAUCET_PROGRAM_ID
                /\ acc[faucet].space = Faucet_LEN
                /\ acc[faucet].data.kind = "uninit"
                /\ acc[mint].data.kind = "mint"
                /\ ix.data[1] = INIT_FAUCET_TAG
             THEN [ok |-> TRUE,
                   acc |-> [acc EXCEPT ![faucet] = [@ EXCEPT !.data =
                       [kind |-> "faucet", mint |-> mint,
                        amount |-> FaucetInstruction_unpack(ix.data),
                        admin |-> IF Len(ix.accounts) >= 4
                                  THEN ix.accounts[4].pubkey ELSE None]]]]
             ELSE [ok |-> FALSE, acc |-> acc]
    ELSE [ok |-> FALSE, acc |-> acc]

\* instructions i.. of a transaction, in order, stopping at the first failure
RECURSIVE ExecFrom(_, _, _, _)
ExecFrom(acc, instructions, i, rent_now) ==
    IF i > Len(instructions) THEN [ok |-> TRUE, acc |-> acc, failed_at |-> 0]
    ELSE LET r == ExecIx(acc, instructions[i], rent_now)
         IN  IF r.ok THEN ExecFrom(r.acc, instructions, i + 1, rent_now)
             ELSE [ok |-> FALSE, acc |-> acc, failed_at |-> i]

\* a transaction either commits the effects of all its instructions or
\* leaves the account store as it was
ExecTx(acc, t, rent_now, tip_now) ==
    IF \/ t.message.recent_blockhash # tip_now
       \/ ~(RequiredSigners(t.message) \subseteq t.signatures)
       \/ ~Exists(acc, t.message.fee_payer)
    THEN [ok |-> FALSE, acc |-> acc, failed_at |-> 0]
    ELSE LET r == ExecFrom(acc, t.message.instructions, 1, rent_now)
         IN  IF r.ok THEN r
             ELSE [ok |-> FALSE, acc |-> acc, failed_at |-> r.failed_at]

(***************************************************************************)
(* Error propagation.                                                      *)
(***************************************************************************)
\* variant: the Err of reading the key file is ignored
expect_swallow(ok, next) == [pc |-> next, exit |-> "running"]

\* `.expect(..)` in main: continue on Ok, panic on Err
expect(ok, next) ==
    IF ok THEN [pc |-> next, exit |-> "running"]
    ELSE [pc |-> "done", exit |-> "panic"]

\* variant: the Err is dropped and the handler carries on
Question_swallow(ok, next) == [pc |-> next, exit |-> "running"]

\* `?` in the handler returns the Err to main, whose `.unwrap()` panics
Question(ok, next) ==
    IF ok THEN [pc |-> next, exit |-> "running"]
    ELSE [pc |-> "done", exit |-> "panic"]

\* variant: the unimplemented arms return normally
todo_returns == "success"

\* `todo!()` panics
todo == "panic"

(***************************************************************************)
(* State.                                                                  *)
(***************************************************************************)
VARIABLES
    command,          \* Opts::parse(): the parsed sub-command
    keyfile_ok,       \* whether the wallet file can be read
    pc,               \* position in main / inti_mint_and_faucet
    exit,             \* "running", "success" or "panic"
    payer,            \* the loaded key pair
    mint_keypair, faucet_keypair, mint_authority, amount,
    lamports,         \* value of the rent query just awaited
    ixs,              \* instructions of the array built so far
    recent_blockhash,
    tx,               \* the signed transaction: <<>> or <<t>>
    sig,              \* signature returned by the submission
    sent,             \* transactions handed to the send RPC
    stdout,           \* lines printed
    log,              \* RPC calls made and instructions built, in order
    accounts,         \* cluster: account store
    rent,             \* cluster: rent-exempt minimum per account size
    tip,              \* cluster: latest blockhash
    pending,          \* cluster: transactions received, not yet processed
    landed,           \* cluster: outcome of each processed transaction
    call              \* a direct call of create_init_faucet_ix: <<>> or <<c>>

env == <<command, keyfile_ok>>
locals == <<payer, mint_keypair, faucet_keypair, mint_authority, amount,
            lamports, ixs, recent_blockhash, tx, sig>>
cluster == <<accounts, rent, tip, pending, landed>>
vars == <<env, pc, exit, locals, sent, stdout, log, cluster, call>>

(***************************************************************************)
(* Inputs.                                                                 *)
(***************************************************************************)
MaxAmountSamples ==
    {U64_ZERO, <<18, 0, 0, 0, 0, 0, 0, 0>>, <<232, 3, 0, 0, 0, 0, 0, 0>>,
     U64_MAX}
DecimalsSamples == {0, 6, 18, 19, 20, 255}
FaucetArgSamples == {"k1", "not-an-address"}

Event(ev, arg, ok, val) == [ev |-> ev, arg |-> arg, ok |-> ok, val |-> val]

InitCluster ==
    /\ \E funds \in 0..MaxFunds :
          accounts = [a \in Addresses |->
                        IF a = PAYER
                        THEN [lamports |-> funds, owner |-> SYSTEM_PROGRAM_ID,
                              space |-> None, data |-> [kind |-> "wallet"]]
                        ELSE NoAccount]
    /\ rent \in [Spaces -> 1..MaxRent]
    /\ tip = 0
    /\ pending = {}
    /\ landed = <<>>

InitLocals ==
    /\ pc = "main"
    /\ exit = "running"
    /\ payer = None
    /\ mint_keypair = None
    /\ faucet_keypair = None
    /\ mint_authority = None
    /\ amount = U64_ZERO
    /\ lamports = 0
    /\ ixs = <<>>
    /\ recent_blockhash = 0
    /\ tx = <<>>
    /\ sig = None
    /\ sent = <<>>
    /\ stdout = <<>>
    /\ log = <<>>

Init ==
    /\ \/ \E u \in MaxAmountSamples, d \in DecimalsSamples :
             command = [name |-> "create", max_amount |-> u, decimals |-> d]
       \/ \E f \in FaucetArgSamples, a \in {U64_ONE, U64_MAX} :
             command = [name |-> "airdrop", faucet |-> f, amount |-> a]
       \/ \E f \in FaucetArgSamples :
             command = [name |-> "close", faucet |-> f]
    /\ keyfile_ok \in BOOLEAN
    /\ InitLocals
    /\ InitCluster
    /\ call = <<>>

(***************************************************************************)
(* main                                                                    *)
(***************************************************************************)
\* RpcClient::new (no request is made) and read_keypair_file(..).expect(..)
ReadKeypair ==
    /\ pc = "main"
    /\ LET e == expect(keyfile_ok, "match")
       IN  /\ pc' = e.pc
           /\ exit' = e.exit
           /\ payer' = IF keyfile_ok THEN PAYER ELSE None
    /\ UNCHANGED <<env, mint_keypair, faucet_keypair, mint_authority, amount,
                   lamports, ixs, recent_blockhash, tx, sig, sent, stdout,
                   log, cluster, call>>

\* match arm Command::Create: the handler's future is created and awaited
DispatchCreate ==
    /\ pc = "match"
    /\ command.name = "create"
    /\ pc' = "keys"
    /\ UNCHANGED <<env, exit, locals, sent, stdout, log, cluster, call>>

\* match arm Command::Airdrop | Command::Close
DispatchTodo ==
    /\ pc = "match"
    /\ command.name \in {"airdrop", "close"}
    /\ pc' = "done"
    /\ exit' = todo
    /\ UNCHANGED <<env, locals, sent, stdout, log, cluster, call>>

(***************************************************************************)
(* inti_mint_and_faucet                                                    *)
(***************************************************************************)
GenerateKeypairs ==
    /\ pc = "keys"
    /\ mint_keypair' = FRESH_KEYS[1]
    /\ faucet_keypair' = FRESH_KEYS[2]
    /\ mint_authority' = get_faucet_pda
    /\ pc' = "amount"
    /\ UNCHANGED <<env, exit, payer, amount, lamports, ixs, recent_blockhash,
                   tx, sig, sent, stdout, log, cluster, call>>

\* let amount = ui_amount * 10u64.pow(decimals as u32);
\* an overflowing `*` panics in a build with overflow checks (debug profile)
\* and wraps in a build without them (release profile)
ComputeAmount ==
    /\ pc = "amount"
    /\ \E overflow_checks \in BOOLEAN :
          LET a == ScaledAmount(command.max_amount, command.decimals)
          IN  IF a.ovf /\ overflow_checks
              THEN /\ pc' = "done"
                   /\ exit' = "panic"
                   /\ UNCHANGED amount
              ELSE /\ pc' = "rent_mint"
                   /\ amount' = a.val
                   /\ UNCHANGED exit
    /\ UNCHANGED <<env, payer, mint_keypair, faucet_keypair, mint_authority,
                   lamports, ixs, recent_blockhash, tx, sig, sent, stdout,
                   log, cluster, call>>

\* rpc.get_minimum_balance_for_rent_exemption(len).await?
RentQuery(at, len, next) ==
    /\ pc = at
    /\ \E ok \in BOOLEAN :
          LET q == Question(ok, next)
          IN  /\ pc' = q.pc
              /\ exit' = q.exit
              /\ lamports' = IF ok THEN rent[len] ELSE lamports
              /\ log' = Append(log, Event("get_minimum_balance_for_rent_exemption",
                                          len, ok, IF ok THEN rent[len] ELSE 0))
    /\ UNCHANGED <<env, payer, mint_keypair, faucet_keypair, mint_authority,
                   amount, ixs, recent_blockhash, tx, sig, sent, stdout,
                   cluster, call>>

RentQueryMint == RentQuery("rent_mint", Mint_LEN, "ix_create_mint")

\* variant: the faucet account reuses the value queried for the mint
FaucetLamports_reuseMint(awaited) == ixs[1].data.lamports

\* the lamports argument of each create_account call
MintLamports(awaited) == awaited
FaucetLamports(awaited) == awaited

BuildCreateMint ==
    /\ pc = "ix_create_mint"
    /\ ixs' = Append(ixs, create_account(payer, mint_keypair,
                                         MintLamports(lamports), Mint_LEN,
                                         TOKEN_PROGRAM_ID))
    /\ log' = Append(log, Event("create_account", mint_keypair, TRUE, lamports))
    /\ pc' = "ix_init_mint"
    /\ UNCHANGED <<env, exit, payer, mint_keypair, faucet_keypair,
                   mint_authority, amount, lamports, recent_blockhash, tx,
                   sig, sent, stdout, cluster, call>>

\* spl_token::instruction::initialize_mint2(..)?
BuildInitMint ==
    /\ pc = "ix_init_mint"
    /\ LET r == initialize_mint2(TOKEN_PROGRAM_ID, mint_keypair,
                                 mint_authority, None, command.decimals)
           q == Question(r.ok, "rent_faucet")
       IN  /\ pc' = q.pc
           /\ exit' = q.exit
           /\ ixs' = IF r.ok THEN Append(ixs, r.ix) ELSE ixs
           /\ log' = Append(log, Event("initialize_mint2", mint_keypair,
                                       r.ok, 0))
    /\ UNCHANGED <<env, payer, mint_keypair, faucet_keypair, mint_authority,
                   amount, lamports, recent_blockhash, tx, sig, sent, stdout,
                   cluster, call>>

RentQueryFaucet == RentQuery("rent_faucet", Faucet_LEN, "ix_create_faucet")

BuildCreateFaucet ==
    /\ pc = "ix_create_faucet"
    /\ ixs' = Append(ixs, create_account(payer, faucet_keypair,
                                         FaucetLamports(lamports), Faucet_LEN,
                                         FAUCET_PROGRAM_ID))
    /\ log' = Append(log, Event("create_account", faucet_keypair, TRUE,
                                lamports))
    /\ pc' = "ix_init_faucet"
    /\ UNCHANGED <<env, exit, payer, mint_keypair, faucet_keypair,
                   mint_authority, amount, lamports, recent_blockhash, tx,
                   sig, sent, stdout, cluster, call>>

BuildInitFaucet ==
    /\ pc = "ix_init_faucet"
    /\ ixs' = Append(ixs, create_init_faucet_ix(mint_keypair, faucet_keypair,
                                                None, amount))
    /\ log' = Append(log, Event("create_init_faucet_ix", faucet_keypair,
                                TRUE, 0))
    /\ pc' = "blockhash"
    /\ UNCHANGED <<env, exit, payer, mint_keypair, faucet_keypair,
                   mint_authority, amount, lamports, recent_blockhash, tx,
                   sig, sent, stdout, cluster, call>>

\* rpc.get_latest_blockhash().await?
GetLatestBlockhash ==
    /\ pc = "blockhash"
    /\ \E ok \in BOOLEAN :
          LET q == Question(ok, "sign")
          IN  /\ pc' = q.pc
              /\ exit' = q.exit
              /\ recent_blockhash' = IF ok THEN tip ELSE recent_blockhash
              /\ log' = Append(log, Event("get_latest_blockhash", None, ok,
                                          IF ok THEN tip ELSE 0))
    /\ UNCHANGED <<env, payer, mint_keypair, faucet_keypair, mint_authority,
                   amount, lamports, ixs, tx, sig, sent, stdout, cluster,
                   call>>

\* Transaction::new_signed_with_payer(&[..], Some(&payer), &[..], blockhash)
NewSignedWithPayer ==
    /\ pc = "sign"
    /\ LET r == new_signed_with_payer(
                    InstructionArray(ixs[1], ixs[2], ixs[3], ixs[4]),
                    FeePayer(payer, mint_keypair, faucet_keypair),
                    SigningKeypairs(payer, mint_keypair, faucet_keypair),
                    recent_blockhash)
       IN  IF r.ok
           THEN /\ tx' = <<r.tx>>
                /\ pc' = "send"
                /\ UNCHANGED exit
           ELSE /\ pc' = "done"
                /\ exit' = "panic"
                /\ UNCHANGED tx
    /\ UNCHANGED <<env, payer, mint_keypair, faucet_keypair, mint_authority,
                   amount, lamports, ixs, recent_blockhash, sig, sent, stdout,
                   log, cluster, call>>

\* commitment levels a processed transaction passes through
CommitmentRank(c) ==
    CASE c = "processed" -> 1 [] c = "confirmed" -> 2

CommitmentConfig_confirmed == "confirmed"

SIGNATURE == "signature(tx)"

\* send_and_confirm_transaction_with_spinner_and_commitment, first half:
\* the transaction is sent once; the request may fail before or after the
\* cluster received it
SendTransaction ==
    /\ pc = "send"
    /\ sent' = Append(sent, tx[1])
    /\ \E ok \in BOOLEAN, delivered \in BOOLEAN :
          LET q == Question(ok, "confirm")
          IN  /\ ok => delivered
              /\ pc' = q.pc
              /\ exit' = q.exit
              /\ sig' = IF ok THEN SIGNATURE ELSE sig
              /\ pending' = IF delivered THEN pending \cup {tx[1]} ELSE pending
              /\ log' = Append(log, Event("send_transaction", None, ok, 0))
    /\ UNCHANGED <<env, payer, mint_keypair, faucet_keypair, mint_authority,
                   amount, lamports, ixs, recent_blockhash, tx, stdout,
                   accounts, rent, tip, landed, call>>

\* second half: Ok once the transaction succeeded and reached the
\* requested commitment; Err when it failed, or on a network error or
\* an expired blockhash
ConfirmTransaction ==
    /\ pc = "confirm"
    /\ \E ok \in BOOLEAN :
          LET q == Question(ok, "print")
          IN  /\ ok => /\ landed # <<>>
                       /\ landed[1].ok
                       /\ CommitmentRank(landed[1].level) >=
                              CommitmentRank(CommitmentConfig_confirmed)
              /\ pc' = q.pc
              /\ exit' = q.exit
              /\ log' = Append(log, Event("confirm_transaction", None, ok, 0))
    /\ UNCHANGED <<env, locals, sent, stdout, cluster, call>>

\* the two println! calls, Ok(()) and main's unwrap of it
PrintResult ==
    /\ pc = "print"
    /\ stdout' = <<<<"Transaction signature: ", sig>>,
                   <<"Mint: ", mint_keypair, "Faucet: ", faucet_keypair>>>>
    /\ exit' = "success"
    /\ pc' = "done"
    /\ UNCHANGED <<env, locals, sent, log, cluster, call>>

(***************************************************************************)
(* The cluster's own steps.                                                *)
(***************************************************************************)
ClusterProcess ==
    /\ \E t \in pending :
          LET r == ExecTx(accounts, t, rent, tip)
          IN  /\ accounts' = r.acc
              /\ landed' = Append(landed, [ok |-> r.ok,
                                           failed_at |-> r.failed_at,
                                           level |-> "processed"])
              /\ pending' = pending \ {t}
    /\ UNCHANGED <<env, pc, exit, locals, sent, stdout, log, rent, tip,
                   call>>

ClusterVote ==
    /\ landed # <<>>
    /\ landed[1].level = "processed"
    /\ landed' = [landed EXCEPT ![1].level = "confirmed"]
    /\ UNCHANGED <<env, pc, exit, locals, sent, stdout, log, accounts, rent,
                   tip, pending, call>>

\* a blockhash the client has fetched leaves the acceptance window before
\* its transaction is processed
ClusterAdvance ==
    /\ tip < MaxTip
    /\ pc \in {"sign", "send", "confirm"} \/ pending # {}
    /\ landed = <<>>
    /\ tip' = tip + 1
    /\ UNCHANGED <<env, pc, exit, locals, sent, stdout, log, accounts, rent,
                   pending, landed, call>>

\* the rent schedule changes after the client has queried it and before
\* its transaction is processed
RentDrift ==
    /\ log # <<>>
    /\ pc # "done" \/ pending # {}
    /\ landed = <<>>
    /\ \E r \in [Spaces -> 1..MaxRent] :
          /\ r # rent
          /\ rent' = r
    /\ UNCHANGED <<env, pc, exit, locals, sent, stdout, log, accounts, tip,
                   pending, landed, call>>

Next ==
    \/ ReadKeypair
    \/ DispatchCreate
    \/ DispatchTodo
    \/ GenerateKeypairs
    \/ ComputeAmount
    \/ RentQueryMint
    \/ BuildCreateMint
    \/ BuildInitMint
    \/ RentQueryFaucet
    \/ BuildCreateFaucet
    \/ BuildInitFaucet
    \/ GetLatestBlockhash
    \/ NewSignedWithPayer
    \/ SendTransaction
    \/ ConfirmTransaction
    \/ PrintResult
    \/ ClusterProcess
    \/ ClusterVote
    \/ ClusterAdvance
    \/ RentDrift

Spec == Init /\ [][Next]_vars

(***************************************************************************)
(* create_init_faucet_ix called directly on arbitrary arguments.           *)
(***************************************************************************)
IxAddressSamples == {PAYER, "k1", "k2"}
IxAmountSamples == {U64_ZERO, <<232, 3, 0, 0, 0, 0, 0, 0>>, U64_MAX}

InitIx ==
    /\ command = [name |-> "close", faucet |-> "k1"]
    /\ keyfile_ok = TRUE
    /\ InitLocals
    /\ accounts = [a \in Addresses |-> NoAccount]
    /\ rent = [l \in Spaces |-> 1]
    /\ tip = 0
    /\ pending = {}
    /\ landed = <<>>
    /\ \E m \in IxAddressSamples, f \in IxAddressSamples,
          ad \in IxAddressSamples \cup {None}, amt \in IxAmountSamples :
          call = <<[mint_account |-> m, faucet_account |-> f, admin |-> ad,
                    amount |-> amt, result |-> <<>>]>>

CallCreateInitFaucetIx ==
    /\ call # <<>>
    /\ call[1].result = <<>>
    /\ call' = <<[call[1] EXCEPT !.result =
                    <<create_init_faucet_ix(call[1].mint_account,
                                            call[1].faucet_account,
                                            call[1].admin,
                                            call[1].amount)>>]>>
    /\ UNCHANGED <<env, pc, exit, locals, sent, stdout, log, cluster>>

NextIx == CallCreateInitFaucetIx

SpecIx == InitIx /\ [][NextIx]_vars

(***************************************************************************)
(* Exact arithmetic on decimal numerals, independent of the u64 code:      *)
(* a natural number is its digits, most significant first, zero is <<>>.   *)
(***************************************************************************)
\* quotient and remainder of the bytes 1..i of a by ten, given the
\* remainder carried down from the bytes above
RECURSIVE DivTenFrom(_, _, _)
DivTenFrom(a, i, rem) ==
    IF i = 0 THEN [q |-> <<>>, rem |-> rem]
    ELSE LET cur == rem * BYTE + a[i]
             rest == DivTenFrom(a, i - 1, cur % 10)
         IN  [q |-> Append(rest.q, cur \div 10), rem |-> rest.rem]

RECURSIVE ToDecimal(_)
ToDecimal(a) ==
    IF a = U64_ZERO THEN <<>>
    ELSE LET r == DivTenFrom(a, U64_BYTES, 0)
         IN  Append(ToDecimal(r.q), r.rem)

Zeros(n) == [i \in 1..n |-> 0]

\* U * 10^D as a numeral
ExactProduct(U, D) == IF U = U64_ZERO THEN <<>> ELSE ToDecimal(U) \o Zeros(D)

RECURSIVE LexLeq(_, _, _)
LexLeq(x, y, i) ==
    IF i > Len(x) THEN TRUE
    ELSE IF x[i] # y[i] THEN x[i] < y[i]
    ELSE LexLeq(x, y, i + 1)

NumeralLeq(x, y) == Len(x) < Len(y) \/ (Len(x) = Len(y) /\ LexLeq(x, y, 1))

\* 2^64 - 1
U64_MAX_NUMERAL == <<1, 8, 4, 4, 6, 7, 4, 4, 0, 7, 3, 7, 0, 9, 5, 5, 1, 6, 1, 5>>

FitsU64(numeral) == NumeralLeq(numeral, U64_MAX_NUMERAL)

\* both 10^D and U * 10^D are representable in 64 bits
ScalingFits(U, D) ==
    FitsU64(<<1>> \o Zeros(D)) /\ FitsU64(ExactProduct(U, D))

IsCreate == command.name = "create"

\* C1: in `create`, for D in 0..18, whenever U * 10^D fits in a u64 the
\* amount carried by the faucet-initialization instruction is exactly
\* U * 10^D; and whenever U * 10^D or 10^D does not fit, the command is
\* rejected: no transaction is built or submitted.
C1_AmountScaledOrRejected ==
    IsCreate =>
        LET U == command.max_amount
            D == command.decimals
        IN  /\ (D <= 18 /\ ScalingFits(U, D) /\ Len(ixs) >= 4) =>
                  ToDecimal(FaucetInstruction_unpack(ixs[4].data))
                      = ExactProduct(U, D)
            /\ ~ScalingFits(U, D) =>
                  /\ Len(ixs) < 4
                  /\ tx = <<>>
                  /\ sent = <<>>

\* the part of C1 the code keeps in every build: an amount that reaches an
\* instruction is the exact product whenever the product fits
C1_ExactWhenFits ==
    (IsCreate /\ Len(ixs) >= 4
        /\ ScalingFits(command.max_amount, command.decimals)) =>
        ToDecimal(FaucetInstruction_unpack(ixs[4].data))
            = ExactProduct(command.max_amount, command.decimals)

(***************************************************************************)
(* Observations used by the properties.                                    *)
(***************************************************************************)
\* every transaction the flow has built or handed to the send RPC
BuiltTransactions ==
    {tx[i] : i \in DOMAIN tx} \cup {sent[i] : i \in DOMAIN sent}

NetworkCallNames == {"get_minimum_balance_for_rent_exemption",
                     "get_latest_blockhash", "send_transaction",
                     "confirm_transaction"}

\* positions in the log of the events with this name and argument
Positions(ev, arg) ==
    {i \in DOMAIN log : log[i].ev = ev /\ log[i].arg = arg}

NetworkCalls == {i \in DOMAIN log : log[i].ev \in NetworkCallNames}

FailedCalls(names) == {i \in DOMAIN log : log[i].ev \in names /\ ~log[i].ok}

Before(I, J) == \A j \in J : \E i \in I : i < j

CreatedOnChain == {a \in Addresses : a # PAYER /\ Exists(accounts, a)}

\* C2: create_init_faucet_ix(mint, faucet, admin, amount) targets the faucet
\* program and lists exactly mint (read-only), faucet (writable), rent sysvar
\* (read-only), then admin (read-only) when one is given: 3 or 4 entries,
\* exactly one of them writable (the faucet), none a signer.
C2_AccountListShape ==
    \A i \in DOMAIN call : \A k \in DOMAIN call[i].result :
        LET c == call[i]
            ix == c.result[k]
            base == <<[pubkey |-> c.mint_account, is_signer |-> FALSE,
                       is_writable |-> FALSE],
                      [pubkey |-> c.faucet_account, is_signer |-> FALSE,
                       is_writable |-> TRUE],
                      [pubkey |-> RENT_SYSVAR_ID, is_signer |-> FALSE,
                       is_writable |-> FALSE]>>
        IN  /\ ix.program_id = FAUCET_PROGRAM_ID
            /\ c.admin = None => ix.accounts = base /\ Len(ix.accounts) = 3
            /\ c.admin # None =>
                  /\ ix.accounts = Append(base, [pubkey |-> c.admin,
                                                 is_signer |-> FALSE,
                                                 is_writable |-> FALSE])
                  /\ Len(ix.accounts) = 4
            /\ {j \in DOMAIN ix.accounts : ix.accounts[j].is_writable} = {2}
            /\ \A j \in DOMAIN ix.accounts : ~ix.accounts[j].is_signer

C2_Witness ==
    /\ call # <<>>
    /\ call[1].result # <<>>
    /\ call[1].admin # None
    /\ call[1].admin # call[1].mint_account
    /\ Len(call[1].result[1].accounts) = 4

\* C3: every transaction the create flow builds has exactly four
\* instructions, in the order create mint account, initialize mint, create
\* faucet account, initialize faucet.
C3_InstructionOrder ==
    \A t \in BuiltTransactions :
        LET is == t.message.instructions
        IN  /\ Len(is) = 4
            /\ is[1].program_id = SYSTEM_PROGRAM_ID
            /\ is[1].data.tag = "CreateAccount"
            /\ is[1].accounts[2].pubkey = mint_keypair
            /\ is[2].program_id = TOKEN_PROGRAM_ID
            /\ is[2].data.tag = "InitializeMint2"
            /\ is[2].accounts[1].pubkey = mint_keypair
            /\ is[3].program_id = SYSTEM_PROGRAM_ID
            /\ is[3].data.tag = "CreateAccount"
            /\ is[3].accounts[2].pubkey = faucet_keypair
            /\ is[4].program_id = FAUCET_PROGRAM_ID
            /\ is[4].data[1] = INIT_FAUCET_TAG
            /\ is[4].accounts[2].pubkey = faucet_keypair

C3_Witness == tx # <<>> /\ sent # <<>> /\ pc = "confirm"

\* C4: a submitted transaction has the loaded payer as fee payer, is signed
\* by exactly the payer, the fresh mint key and the fresh faucet key, and
\* every account an instruction marks as signer (the funder and the new
\* account of each create-account instruction) is among those signers.
C4_SignerCompleteness ==
    \A t \in BuiltTransactions :
        LET is == t.message.instructions
        IN  /\ payer = PAYER
            /\ t.message.fee_payer = payer
            /\ t.signatures = {payer, mint_keypair, faucet_keypair}
            /\ Cardinality(t.signatures) = 3
            /\ \A i \in DOMAIN is : \A j \in DOMAIN is[i].accounts :
                  is[i].accounts[j].is_signer =>
                      is[i].accounts[j].pubkey \in t.signatures
            /\ \A i \in DOMAIN is :
                  is[i].program_id = SYSTEM_PROGRAM_ID =>
                      /\ is[i].accounts[1] = [pubkey |-> payer,
                                              is_signer |-> TRUE,
                                              is_writable |-> TRUE]
                      /\ is[i].accounts[2].is_signer

C4_Witness ==
    /\ sent # <<>>
    /\ landed # <<>>
    /\ landed[1].ok

\* C5: once the command has ended, either the mint and the faucet both
\* exist on-chain and are initialized (the faucet bound to that mint), or
\* neither exists; a rejected faucet-account creation leaves no mint.
C5_Atomicity ==
    exit # "running" =>
        \/ CreatedOnChain = {}
        \/ /\ CreatedOnChain = {mint_keypair, faucet_keypair}
           /\ accounts[mint_keypair].owner = TOKEN_PROGRAM_ID
           /\ accounts[mint_keypair].data.kind = "mint"
           /\ accounts[faucet_keypair].owner = FAUCET_PROGRAM_ID
           /\ accounts[faucet_keypair].data.kind = "faucet"
           /\ accounts[faucet_keypair].data.mint = mint_keypair

\* the faucet-account creation alone was rejected (the payer could fund the
\* mint account only) and the command has ended
C5_Witness ==
    /\ exit # "running"
    /\ landed # <<>>
    /\ landed[1].failed_at = 3
    /\ CreatedOnChain = {}

\* C6: at most one transaction is submitted; a failed rent query, mint
\* builder or blockhash query means none is built or submitted; every
\* failure ends the command in the panic state with nothing printed; the
\* signature and the addresses are printed only after the transaction
\* succeeded at the confirmed commitment.
C6_ErrorPropagation ==
    /\ Len(sent) <= 1
    /\ FailedCalls({"get_minimum_balance_for_rent_exemption",
                    "initialize_mint2", "get_latest_blockhash"}) # {} =>
          tx = <<>> /\ sent = <<>> /\ pending = {}
    /\ FailedCalls(NetworkCallNames \cup {"initialize_mint2"}) # {} =>
          /\ pc = "done"
          /\ exit = "panic"
          /\ stdout = <<>>
          /\ FailedCalls(NetworkCallNames \cup {"initialize_mint2"})
                = {Len(log)}
    /\ exit = "panic" => stdout = <<>>
    /\ stdout # <<>> =>
          /\ Len(sent) = 1
          /\ landed # <<>>
          /\ landed[1].ok
          /\ landed[1].level = "confirmed"
          /\ log[Len(log)] = Event("confirm_transaction", None, TRUE, 0)

\* the confirmation failed although the transaction then succeeded on-chain
C6_Witness ==
    /\ exit = "panic"
    /\ Len(sent) = 1
    /\ FailedCalls({"confirm_transaction"}) # {}
    /\ landed # <<>>
    /\ landed[1].ok

\* C7: `airdrop` and `close` never end in success: they end in a panic, and
\* no rent query, blockhash query or submission is made and nothing is
\* created on-chain.
C7_Unimplemented ==
    command.name \in {"airdrop", "close"} =>
        /\ exit # "success"
        /\ pc \in {"main", "match", "done"}
        /\ pc = "done" => exit = "panic"
        /\ log = <<>>
        /\ sent = <<>>
        /\ pending = {}
        /\ CreatedOnChain = {}

C7_Witness ==
    /\ command.name = "airdrop"
    /\ payer = PAYER
    /\ pc = "done"
    /\ exit = "panic"

\* C8: when the key file cannot be read the process ends in a panic before
\* any network call and before the command's handler is entered; a network
\* call is made only in runs that read the key file.
C8_ConfigErrorFirst ==
    /\ ~keyfile_ok =>
          /\ pc \in {"main", "done"}
          /\ pc = "done" => exit = "panic"
          /\ log = <<>>
          /\ sent = <<>>
          /\ pending = {}
    /\ (NetworkCalls # {} \/ sent # <<>>) => (keyfile_ok /\ payer = PAYER)

C8_Witness ==
    /\ ~keyfile_ok
    /\ IsCreate
    /\ pc = "done"
    /\ exit = "panic"

\* C9: in a built transaction the mint created by instruction 1 (Mint::LEN,
\* owned by the token program) is the one initialized by instruction 2 and
\* listed first in instruction 4; the faucet created by instruction 3
\* (Faucet::LEN, owned by the faucet program) is the writable account of
\* instruction 4; the mint gets decimals D, the derived address as mint
\* authority (not the payer or a fresh key), no freeze authority; the
\* faucet gets no admin; the addresses printed are these two.
C9_Wiring ==
    /\ \A t \in BuiltTransactions :
          LET is == t.message.instructions
              mint == is[1].accounts[2].pubkey
              faucet == is[3].accounts[2].pubkey
          IN  /\ mint \in FreshKeys /\ faucet \in FreshKeys /\ mint # faucet
              /\ is[1].data.space = Mint_LEN
              /\ is[1].data.owner = TOKEN_PROGRAM_ID
              /\ is[2].accounts[1].pubkey = mint
              /\ is[2].data.decimals = command.decimals
              /\ is[2].data.mint_authority = FAUCET_PDA
              /\ is[2].data.mint_authority \notin {payer, mint, faucet}
              /\ is[2].data.freeze_authority = None
              /\ is[3].data.space = Faucet_LEN
              /\ is[3].data.owner = FAUCET_PROGRAM_ID
              /\ Len(is[4].accounts) = 3
              /\ is[4].accounts[1].pubkey = mint
              /\ is[4].accounts[2].pubkey = faucet
              /\ is[4].accounts[2].is_writable
              /\ stdout # <<>> =>
                    stdout[2] = <<"Mint: ", mint, "Faucet: ", faucet>>
    /\ stdout # <<>> => tx # <<>>

\* `create --max-amount 1000 --decimals 6` succeeded and printed
C9_Witness ==
    /\ stdout # <<>>
    /\ command.decimals = 6
    /\ command.max_amount = <<232, 3, 0, 0, 0, 0, 0, 0>>
    /\ accounts[mint_keypair].data.decimals = 6
    /\ accounts[mint_keypair].data.mint_authority = FAUCET_PDA
    /\ accounts[faucet_keypair].data.admin = None

\* C10: the mint's rent is queried before its create-account instruction
\* is built, the faucet's rent after that and before the faucet's
\* create-account instruction, the blockhash after both queries and all
\* four instructions, the submission after the blockhash; each
\* create-account instruction carries the value its own query returned.
C10_CallOrder ==
    LET rentMint == Positions("get_minimum_balance_for_rent_exemption",
                              Mint_LEN)
        rentFaucet == Positions("get_minimum_balance_for_rent_exemption",
                                Faucet_LEN)
        mkMint == Positions("create_account", mint_keypair)
        mkFaucet == Positions("create_account", faucet_keypair)
        initMint == Positions("initialize_mint2", mint_keypair)
        initFaucet == Positions("create_init_faucet_ix", faucet_keypair)
        blockhash == Positions("get_latest_blockhash", None)
        send == Positions("send_transaction", None)
    IN  /\ Cardinality(rentMint) <= 1 /\ Cardinality(rentFaucet) <= 1
        /\ Before(rentMint, mkMint)
        /\ Before(mkMint, rentFaucet)
        /\ Before(rentFaucet, mkFaucet)
        /\ \A I \in {rentMint, rentFaucet, mkMint, initMint, mkFaucet,
                     initFaucet} : Before(I, blockhash)
        /\ Before(blockhash, send)
        /\ \A b \in blockhash : send # {} => log[b].ok
        /\ Len(ixs) >= 1 =>
              \E i \in rentMint :
                  log[i].ok /\ ixs[1].data.lamports = log[i].val
        /\ Len(ixs) >= 3 =>
              \E i \in rentFaucet :
                  log[i].ok /\ ixs[3].data.lamports = log[i].val

\* submitted with two different rent values, one per query
C10_Witness ==
    /\ Positions("send_transaction", None) # {}
    /\ ixs[1].data.lamports # ixs[3].data.lamports

====
